---- MODULE Spec2Model ----
(***************************************************************************)
(* Knowledge lifecycle of the MEXAR backend: the agent registry            *)
(* (services/agent_service.py), the compile endpoint (api/compile.py), the *)
(* background compilation worker (workers/compilation_worker.py), the      *)
(* vector save of the knowledge compiler (modules/knowledge_compiler.py)   *)
(* and the chat / retrieval read path (api/chat.py,                        *)
(* modules/reasoning_engine.py, utils/hybrid_search.py).                   *)
(*                                                                         *)
(* The database tables are the variables agents, jobs and chunks; a commit *)
(* is one step.  Every worker thread, the compile handler and the chat     *)
(* handler are processes with a program counter.                           *)
(*                                                                         *)
(* Further specifications over the same state: SpecDelete (agents deleted  *)
(* under running workers), SpecCreate (interleaved create_agent calls),    *)
(* SpecInfer (services/inference_service.py, engines kept across calls),   *)
(* SpecSubscribe (api/websocket.py) and SpecConfidence (the confidence of  *)
(* reason() over the values its steps return), SpecStages (reason() stage  *)
(* by stage), SpecAttribute (utils/source_attribution.py),                 *)
(* SpecFaithfulness (utils/faithfulness.py) and SpecAnalyze                *)
(* (modules/prompt_analyzer.py).                                           *)
(***************************************************************************)
EXTENDS Integers, Sequences, FiniteSets, TLC

\* ------------------------------------------------------------------ bounds
MaxChunks == 1
Users == {1, 2}

\* raw agent names a client may send, as character sequences
RawNames == { <<"a">>, <<" ", "A">> }

\* the tenants that only create agents and the tenants that compile them,
\* where a specification keeps the two apart
Creators == {1}
Compilers == {2}

\* number of claims the faithfulness scorer extracts from an answer
MaxClaims == 2
MaxSentences == 3
MaxScored == 6
MaxLlmKeywords == 10

\* RRF score of the best search hit, in units of 1/30000
Similarities == {0, 299, 500, 701, 1500}

\* cross-encoder score of the best chunk, in hundredths
RerankScores == {-1200, -500, 50, 800, 1500}

\* request threads that run create_agent at the same time
Threads == {1, 2}

\* lengths of the exception messages a failing step may carry
ErrLens == {3, 501}

\* number of keywords the LLM returns to the prompt analyzer, and number of
\* defaults the table holds for the detected domain (none for "general")
LlmKeywordCounts == {0, 12}
DefaultCounts == {0}

\* ------------------------------------------------------- program constants
MaxErrorLen == 500
MinKeywords == 10
MaxKeywords == 20
MinSentenceWords == 4
MaxUnsupportedShown == 5

VARIABLES
    agents,       \* table agents: sequence of rows, the id is the index
    jobs,         \* table compilation_jobs: sequence of rows, the id is the index
    chunks,       \* table document_chunks: set of rows
    deleted,      \* ids of the agents whose row has been deleted (a deleted
                  \* row keeps its place so that ids keep their meaning)
    active_jobs,  \* CompilationWorker.active_jobs: agent id -> job id (0: none)
    creq,         \* compile handlers between create_agent and start_compilation
    workers,      \* one record per compilation thread, indexed by job id
    chat,         \* the chat handler / reasoning engine in flight
    resp,         \* the last response of the compile endpoint:
                  \* its status and, for a name conflict, the agent in the way
    calls,        \* create_agent calls in flight, one slot per request thread
    engine_cache, \* InferenceService.engine_cache: agent id -> what the
                  \* engine of that agent holds in its _agent_cache
    infer,        \* the InferenceService.chat call in flight
    sub,          \* a client of the compile progress websocket
    query,        \* a reason() call: what its steps return, and its result
    att,          \* a SourceAttributor.attribute call and its locals
    faith,        \* a FaithfulnessScorer.score call and its result
    analysis,     \* a PromptAnalyzer.analyze_prompt call and its result
    run           \* a reason() call followed stage by stage

vars == <<agents, jobs, chunks, deleted, active_jobs, creq, workers, chat, resp,
          calls, engine_cache, infer, sub, query, att, faith, analysis,
          run>>

\* the state of the handlers that have a specification of their own
aside == <<calls, engine_cache, infer, sub, query, att, faith, analysis,
          run>>

\* ---------------------------------------------------------------- helpers
Min(a, b) == IF a < b THEN a ELSE b

\* str.strip(): drop leading and trailing spaces
RECURSIVE LStrip(_)
LStrip(s) == IF s # <<>> /\ Head(s) = " " THEN LStrip(Tail(s)) ELSE s

RECURSIVE RStrip(_)
RStrip(s) ==
    IF s # <<>> /\ s[Len(s)] = " " THEN RStrip(SubSeq(s, 1, Len(s) - 1)) ELSE s

Strip(s) == RStrip(LStrip(s))

\* str.replace(" ", "_")
ReplaceSpaces(s) == [i \in 1..Len(s) |-> IF s[i] = " " THEN "_" ELSE s[i]]

\* str.lower()
LowerChar(c) == IF c = "A" THEN "a" ELSE IF c = "B" THEN "b" ELSE c

Lower(s) == [i \in 1..Len(s) |-> LowerChar(s[i])]

\* agent_service.create_agent: clean_name = name.strip().replace(" ", "_").lower()
CleanName(name) == Lower(ReplaceSpaces(Strip(name)))

\* an owner has one agent per clean name and an agent one compilation job
MaxAgents == Cardinality(Users) * Cardinality({CleanName(r) : r \in RawNames})

MaxJobs == MaxAgents

AgentIds == 1..MaxAgents

JobIds == 1..MaxJobs

\* the rows that are in the tables
AgentExists(a) == a \in 1..Len(agents) /\ a \notin deleted

JobExists(j) == j \in 1..Len(jobs) /\ jobs[j].live

\* rows of the agents table matching a filter
AgentsNamed(n) == {a \in 1..Len(agents) : AgentExists(a) /\ agents[a].name = n}

AgentsOwned(u, n) == {a \in AgentsNamed(n) : agents[a].user = u}

ChunksOf(a) == {c \in chunks : c.agent = a}

JobsOf(a) == {j \in 1..Len(jobs) : JobExists(j) /\ jobs[j].agent_id = a}

InProgressJobs(a) == {j \in JobsOf(a) : jobs[j].status = "in_progress"}

\* owner: the caller's own agent, found by get_agent; target: the agent the
\* engine has loaded; rows: the result of the first search query
NoChat == [pc |-> "idle", owner |-> 0, target |-> 0, rows |-> {}]

NoResp == [op |-> "none", status |-> 0, agent |-> 0]

\* the agent_data dict of _load_agent; status is the status the row had when
\* the dict was built
NoSnapshot == [id |-> 0, status |-> "none", kw |-> 0]

NoInfer == [pc |-> "idle", snap |-> NoSnapshot]

\* an event on the websocket: its type, the status of the agent and the
\* progress of the agent's latest job (-1 without a job)
NoEvent == [type |-> "none", agent_status |-> "none", job |-> -1]

\* the websocket handler: its position, the name in the path, the event it
\* sent last
NoSub == [pc |-> "off", name |-> <<>>, last |-> NoEvent]

\* in_domain: the guardrail result; hits: the search has results;
\* reranker_up: the cross-encoder is loaded and predicts; verdicts: the
\* answer of the LLM to each claim of the answer; failing: the claims whose
\* verification call raises; norm_rerank: the rerank component the
\* confidence was computed with, in thousandths; confidence in hundredths
NoQuery ==
    [pc |-> "none", in_domain |-> FALSE, hits |-> FALSE, top_similarity |-> 0,
     rerank_score |-> 0, reranker_up |-> TRUE, verdicts |-> <<>>,
     failing |-> {}, norm_rerank |-> -1, confidence |-> -1]

\* no attribute(), score() or analyze_prompt() call has been made
NoAtt == [pc |-> "idle"]

NoFaith == [pc |-> "idle"]

NoAnalysis == [pc |-> "idle"]

NoRun == [pc |-> "idle"]

\* locals of a create_agent call: the owner and the name it was given
NoCall == [pc |-> "idle", user |-> 0, name |-> <<>>]

Init ==
    /\ agents = <<>>
    /\ jobs = <<>>
    /\ chunks = {}
    /\ deleted = {}
    /\ active_jobs = [a \in AgentIds |-> 0]
    /\ creq = {}
    /\ workers = <<>>
    /\ chat = NoChat
    /\ resp = NoResp
    /\ calls = [t \in Threads |-> NoCall]
    /\ engine_cache = [a \in AgentIds |-> NoSnapshot]
    /\ infer = NoInfer
    /\ sub = NoSub
    /\ query = NoQuery
    /\ att = NoAtt
    /\ faith = NoFaith
    /\ analysis = NoAnalysis
    /\ run = NoRun

\* ------------------------------------------------------- agent registry
\* a name check that finds nothing
ExistingAgentNone(u, clean) == {}

\* agent_service.create_agent, lines 22-25: the existing row of that owner
\* under the clean name
ExistingAgent(u, clean) == AgentsOwned(u, clean)

NewAgentRow(u, clean) ==
    [user |-> u, name |-> clean, status |-> "initializing",
     kw |-> 0, chunk_count |-> 0]

\* a create_agent that hands back the existing row instead of raising
create_agent_upsert(u, name) ==
    LET clean == CleanName(name) IN
    IF ExistingAgent(u, clean) # {}
      THEN [error |-> FALSE, rows |-> agents,
            id |-> CHOOSE a \in ExistingAgent(u, clean) : TRUE]
      ELSE [error |-> FALSE, rows |-> Append(agents, NewAgentRow(u, clean)),
            id |-> Len(agents) + 1]

\* agent_service.create_agent: ValueError naming the agent the owner already
\* has under the clean name, else the table with the new row and the id of
\* that row
create_agent(u, name) ==
    LET clean == CleanName(name) IN
    IF ExistingAgent(u, clean) # {}
      THEN [error |-> TRUE, rows |-> agents,
            id |-> CHOOSE a \in ExistingAgent(u, clean) : TRUE]
      ELSE [error |-> FALSE, rows |-> Append(agents, NewAgentRow(u, clean)),
            id |-> Len(agents) + 1]

\* POST /api/agents: create_agent alone, no compilation; a ValueError is
\* answered with 400 and changes nothing
CreateAgent(u, raw) ==
    LET r == create_agent(u, raw) IN
    /\ IF r.error
         THEN UNCHANGED agents
         ELSE /\ Len(r.rows) <= MaxAgents
              /\ agents' = r.rows
    /\ UNCHANGED <<jobs, chunks, deleted, active_jobs, creq, workers, chat, resp>>
    /\ UNCHANGED aside

\* the (tenant, name) identity of an agent row, enforced by the table when
\* the insert is committed
UniqueNameOff(u, clean) == TRUE

UniqueNameHolds(u, clean) == AgentsOwned(u, clean) = {}

\* create_agent on a threadpool thread, lines 19-28: clean the name, look for
\* a row of the owner under it, raise ValueError when there is one
CreateCheck(t, u, raw) ==
    /\ calls[t].pc = "idle"
    /\ calls' = [calls EXCEPT ![t] =
                   IF ExistingAgent(u, CleanName(raw)) # {}
                     THEN [pc |-> "ValueError", user |-> u, name |-> raw]
                     ELSE [pc |-> "insert", user |-> u, name |-> raw]]
    /\ UNCHANGED <<agents, jobs, chunks, deleted, active_jobs, creq, workers,
                   chat, resp, engine_cache, infer, sub, query,
                 att, faith, analysis, run>>

\* lines 35-47: add the row under the clean name and commit; the commit
\* raises when the row would share owner and name with another one
CreateInsert(t) ==
    /\ calls[t].pc = "insert"
    /\ LET u == calls[t].user
           clean == CleanName(calls[t].name) IN
       IF UniqueNameHolds(u, clean)
         THEN /\ agents' = Append(agents, NewAgentRow(u, clean))
              /\ calls' = [calls EXCEPT ![t] = NoCall]
         ELSE /\ UNCHANGED agents
              /\ calls' = [calls EXCEPT ![t].pc = "IntegrityError"]
    /\ UNCHANGED <<jobs, chunks, deleted, active_jobs, creq, workers, chat, resp,
                   engine_cache, infer, sub, query,
                 att, faith, analysis, run>>

\* agents.py lines 99-100: the error goes back to the client, as 400 for a
\* ValueError
CreateFailed(t) ==
    /\ calls[t].pc \in {"ValueError", "IntegrityError"}
    /\ calls' = [calls EXCEPT ![t] = NoCall]
    /\ UNCHANGED <<agents, jobs, chunks, deleted, active_jobs, creq, workers,
                   chat, resp, engine_cache, infer, sub, query,
                 att, faith, analysis, run>>

\* POST /api/compile, lines 30-39: validation and create_agent; the handler
\* then awaits the uploads
CompileCreate(u, raw) ==
    LET r == create_agent(u, raw) IN
    /\ IF Strip(raw) = <<>> \/ r.error
         THEN /\ resp' = [op |-> "compile", status |-> 400,
                          agent |-> IF Strip(raw) = <<>> THEN 0 ELSE r.id]
              /\ UNCHANGED <<agents, creq>>
         ELSE /\ Len(r.rows) <= MaxAgents
              /\ agents' = r.rows
              /\ creq' = creq \cup {r.id}
              /\ UNCHANGED resp
    /\ UNCHANGED <<jobs, chunks, deleted, active_jobs, workers, chat>>
    /\ UNCHANGED aside

\* POST /api/compile, lines 84-85: reading an upload or committing the job
\* row raises; the handler answers 500, the agent row stays as created
CompileAbort(a) ==
    /\ a \in creq
    /\ creq' = creq \ {a}
    /\ resp' = [op |-> "compile", status |-> 500, agent |-> 0]
    /\ UNCHANGED <<agents, jobs, chunks, deleted, active_jobs, workers, chat>>
    /\ UNCHANGED aside

\* the delete of an agent row takes the chunk rows and the job rows of that
\* agent with it; of a job row that is gone only the id and agent_id its
\* thread still holds are kept
CascadeChunks(a) == chunks \ ChunksOf(a)

CascadeJobs(a) ==
    [j \in 1..Len(jobs) |->
        IF jobs[j].agent_id = a
          THEN [agent_id |-> a, status |-> "in_progress", progress |-> 0,
                errlen |-> 0, completed_at |-> FALSE, live |-> FALSE]
          ELSE jobs[j]]

\* of an agent row that is gone only the owner and the name, which a running
\* thread still holds, are kept
DeletedAgentRow(agent) ==
    [user |-> agent.user, name |-> agent.name, status |-> "initializing",
     kw |-> 0, chunk_count |-> 0]

\* DELETE /api/agents/{agent_name}, AgentService.delete_agent: the caller's
\* agent under the name as given (404 when there is none)
DeleteAgent(u, raw) ==
    /\ \E a \in AgentsOwned(u, raw) :
          /\ deleted' = deleted \cup {a}
          /\ chunks' = CascadeChunks(a)
          /\ jobs' = CascadeJobs(a)
          /\ agents' = [agents EXCEPT ![a] = DeletedAgentRow(@)]
    /\ UNCHANGED <<active_jobs, creq, workers, chat, resp>>
    /\ UNCHANGED aside

\* ------------------------------------------------------ compilation worker
NewJobRow(a) ==
    [agent_id |-> a, status |-> "in_progress", progress |-> 0,
     errlen |-> 0, completed_at |-> FALSE, live |-> TRUE]

\* locals of a compilation thread: its position, the keywords of its prompt
\* analysis, whether its compiler has an embedding model; raised records
\* that some step of the run has raised
NewWorker == [pc |-> "load", kw |-> 0, emb |-> FALSE, raised |-> FALSE]

\* a thread that starts over at the metadata step instead of returning
ReturnedLooping(w, r) == [w EXCEPT !.pc = "p90", !.raised = r]

\* the thread has returned: its locals are gone
Returned(w, r) == [NewWorker EXCEPT !.pc = "done", !.raised = r]

\* the agent_id of a job or chunk row must name a row of the agents table
\* when the insert is committed
ForeignKeyHolds(a) == AgentExists(a)

\* CompilationWorker.start_compilation, called by the compile handler with
\* the agent it has just created: no check of active_jobs or of running jobs
StartCompilation(a) ==
    /\ a \in creq
    /\ ForeignKeyHolds(a)
    /\ Len(jobs) < MaxJobs
    /\ creq' = creq \ {a}
    /\ jobs' = Append(jobs, NewJobRow(a))
    /\ workers' = Append(workers, NewWorker)
    /\ active_jobs' = [active_jobs EXCEPT ![a] = Len(jobs) + 1]
    /\ resp' = [op |-> "compile", status |-> 200, agent |-> 0]
    /\ UNCHANGED <<agents, chunks, deleted, chat>>
    /\ UNCHANGED aside

\* a worker that finds its agent row by name, as the vector save does
WorkerAgentByName(j) ==
    CHOOSE t \in AgentsNamed(agents[jobs[j].agent_id].name) :
        \A o \in AgentsNamed(agents[jobs[j].agent_id].name) : t <= o

\* line 32: the agent row of the run, loaded by id
WorkerAgent(j) == jobs[j].agent_id

\* line 111: job.error_message = str(e)[:500]
Truncate(l) == Min(l, MaxErrorLen)

\* _update_progress: job.progress = progress; db.commit()
UpdateProgress(job, progress) == [job EXCEPT !.progress = progress]

\* a failure record that resets the progress
FailedJobReset(job, prog, l) ==
    [job EXCEPT !.status = "failed", !.progress = 0,
                !.errlen = Truncate(l), !.completed_at = TRUE]

\* lines 110-112; prog is job.progress as last assigned in the session
FailedJob(job, prog, l) ==
    [job EXCEPT !.status = "failed", !.progress = prog,
                !.errlen = Truncate(l), !.completed_at = TRUE]

\* a handler that leaves the agent row as it is
FailedAgentKept(agent, kw, pending) == agent

\* line 116; after a failed final commit the assignments of lines 86-88 are
\* still pending in the session and go out with the same commit
FailedAgent(agent, kw, pending) ==
    [agent EXCEPT !.status = "failed", !.kw = IF pending THEN kw ELSE @]

\* lines 99-122: the exception handler marks job and agent failed in one
\* commit; when that commit fails too it rolls back and the rows stay as
\* last committed: with the milestone of the step when its progress commit
\* had gone through before the step raised, without it otherwise.  A commit
\* that updates a deleted row raises, in the handler as well
HandleException(j, prog, l, pending) ==
    /\ LET a == WorkerAgent(j) IN
       \/ /\ JobExists(j) /\ AgentExists(a)
          /\ jobs' = [jobs EXCEPT ![j] = FailedJob(jobs[j], prog, l)]
          /\ agents' = [agents EXCEPT ![a] = FailedAgent(agents[a], workers[j].kw, pending)]
       \/ UNCHANGED <<agents, jobs>>
       \/ /\ ~pending
          /\ JobExists(j)
          /\ jobs' = [jobs EXCEPT ![j] = UpdateProgress(jobs[j], prog)]
          /\ UNCHANGED agents
    /\ workers' = [workers EXCEPT ![j] = Returned(@, TRUE)]

\* lines 31-36: load the job and the agent, return when one is missing
WorkerLoad(j) ==
    /\ j \in 1..Len(workers)
    /\ workers[j].pc = "load"
    /\ workers' = [workers EXCEPT ![j] =
                     IF JobExists(j) /\ AgentExists(WorkerAgent(j))
                       THEN [@ EXCEPT !.pc = "analyze"] ELSE Returned(@, FALSE)]
    /\ UNCHANGED <<agents, jobs, chunks, deleted, active_jobs, creq, chat, resp>>
    /\ UNCHANGED aside

\* PromptAnalyzer._expand_keywords on list lengths: the existing keywords,
\* then the domain defaults up to 20, then the domain itself, cut at 20
ExpandKeywords(existing, defaults) ==
    LET withDefaults == IF existing < MaxKeywords
                          THEN Min(MaxKeywords, existing + defaults)
                          ELSE existing
    IN Min(withDefaults + 1, MaxKeywords)

\* PromptAnalyzer._ensure_fields: fewer than 10 keywords are expanded
EnsureFields(existing, defaults) ==
    IF existing < MinKeywords THEN ExpandKeywords(existing, defaults) ELSE existing

\* lines 41-44: progress 10, create_prompt_analyzer(), analyze_prompt(); the
\* analyzer falls back on its own when the LLM fails
WorkerAnalyze(j) ==
    /\ j \in 1..Len(workers)
    /\ workers[j].pc = "analyze"
    /\ \/ \E n \in LlmKeywordCounts, d \in DefaultCounts :
            /\ JobExists(j)
            /\ jobs' = [jobs EXCEPT ![j] = UpdateProgress(jobs[j], 10)]
            /\ workers' = [workers EXCEPT ![j].pc = "init",
                                          ![j].kw = EnsureFields(n, d)]
            /\ UNCHANGED agents
       \/ \* the progress commit raises
          \E l \in ErrLens : HandleException(j, 10, l, FALSE)
    /\ UNCHANGED <<chunks, deleted, active_jobs, creq, chat, resp>>
    /\ UNCHANGED aside

\* lines 47-48: progress 20, create_knowledge_compiler();
\* KnowledgeCompiler.__init__ keeps embedding_model = None when the model
\* does not load
WorkerInit(j) ==
    /\ j \in 1..Len(workers)
    /\ workers[j].pc = "init"
    /\ \/ /\ JobExists(j)
          /\ jobs' = [jobs EXCEPT ![j] = UpdateProgress(jobs[j], 20)]
          /\ workers' = [workers EXCEPT ![j].pc = "p30", ![j].emb = TRUE]
          /\ UNCHANGED agents
       \/ \* the embedding model does not load
          /\ JobExists(j)
          /\ jobs' = [jobs EXCEPT ![j] = UpdateProgress(jobs[j], 20)]
          /\ workers' = [workers EXCEPT ![j].pc = "p30", ![j].emb = FALSE]
          /\ UNCHANGED agents
       \/ \* the progress commit or the factory raises
          \E l \in ErrLens : HandleException(j, 20, l, FALSE)
    /\ UNCHANGED <<chunks, deleted, active_jobs, creq, chat, resp>>
    /\ UNCHANGED aside

\* the milestone committed at each position, and the position after it
Milestone(pc) == CASE pc = "p30" -> 30 [] pc = "p80" -> 80 [] pc = "p90" -> 90

AfterMilestone(pc) ==
    CASE pc = "p30" -> "compile" [] pc = "p80" -> "p90" [] pc = "p90" -> "final"

\* lines 51, 80, 83: _update_progress
WorkerProgress(j) ==
    /\ j \in 1..Len(workers)
    /\ workers[j].pc \in {"p30", "p80", "p90"}
    /\ LET p == Milestone(workers[j].pc) IN
       \/ /\ JobExists(j)
          /\ jobs' = [jobs EXCEPT ![j] = UpdateProgress(jobs[j], p)]
          /\ workers' = [workers EXCEPT ![j].pc = AfterMilestone(@)]
          /\ UNCHANGED agents
       \/ \E l \in ErrLens : HandleException(j, p, l, FALSE)
    /\ UNCHANGED <<chunks, deleted, active_jobs, creq, chat, resp>>
    /\ UNCHANGED aside

NewChunks(t, j, n) == {[agent |-> t, batch |-> j, idx |-> i] : i \in 1..n}

\* KnowledgeCompiler._save_to_vector_db, line 329: the rows among which
\* db.query(Agent).filter(Agent.name == agent_name).first() picks
\* a lookup that still finds the rows of deleted agents
SaveTargetsAnyRow(name) == {a \in 1..Len(agents) : agents[a].name = name}

SaveTargets(name) == AgentsNamed(name)

\* lines 334-353: delete the old rows of the agent, add the new rows
ReplaceChunks(t, new) == (chunks \ ChunksOf(t)) \cup new

\* a failed write after which the delete of the old rows stays
ReplaceHalfDone(t) == chunks \ ChunksOf(t)

\* lines 361-364: the insert or the commit has failed; db.rollback() undoes
\* the delete of line 336 together with the insert
ReplaceRolledBack(t) == chunks

\* line 356: agent.chunk_count = len(new_chunks)
SetChunkCount(agent, new) == [agent EXCEPT !.chunk_count = Cardinality(new)]

\* lines 66-78: compiler.compile(); whatever it raises is logged and the
\* worker continues
WorkerCompile(j) ==
    /\ j \in 1..Len(workers)
    /\ workers[j].pc = "compile"
    /\ LET a == WorkerAgent(j)
           cont == [workers EXCEPT ![j].pc = "p80", ![j].emb = FALSE]
           swallowed == [workers EXCEPT ![j].pc = "p80", ![j].emb = FALSE,
                                        ![j].raised = TRUE]
       IN
       \/ \* compile() raises (building the context, writing the metadata
          \* file), or the embedding fails inside the save: logged, nothing
          \* is written
          /\ workers' = swallowed
          /\ UNCHANGED <<agents, chunks>>
       \/ \* the insert or the commit of the new rows fails
          /\ workers[j].emb
          /\ \E t \in SaveTargets(agents[a].name) :
               chunks' = ReplaceRolledBack(t)
          /\ workers' = swallowed
          /\ UNCHANGED agents
       \/ \* no embedding model, or no agent row under that name: no save
          /\ ~workers[j].emb \/ SaveTargets(agents[a].name) = {}
          /\ workers' = cont
          /\ UNCHANGED <<agents, chunks>>
       \/ \* the new rows and chunk_count are committed
          /\ workers[j].emb
          /\ \E t \in SaveTargets(agents[a].name), n \in 1..MaxChunks :
               /\ chunks' = ReplaceChunks(t, NewChunks(t, j, n))
               /\ agents' = [agents EXCEPT ![t] = SetChunkCount(@, NewChunks(t, j, n))]
               /\ workers' = cont
    /\ UNCHANGED <<jobs, deleted, active_jobs, creq, chat, resp>>
    /\ UNCHANGED aside

\* lines 85-88: the metadata the worker assigns to its agent
ReadyAgent(agent, kw) == [agent EXCEPT !.status = "ready", !.kw = kw]

\* a completion that leaves completed_at unset
CompletedJobUnstamped(job) ==
    [job EXCEPT !.status = "completed", !.progress = 100]

\* lines 91-94
CompletedJob(job) ==
    [job EXCEPT !.status = "completed", !.progress = 100, !.completed_at = TRUE]

\* lines 85-96: agent ready and job completed in one commit
WorkerFinal(j) ==
    /\ j \in 1..Len(workers)
    /\ workers[j].pc = "final"
    /\ LET a == WorkerAgent(j) IN
       \/ /\ JobExists(j) /\ AgentExists(a)
          /\ agents' = [agents EXCEPT ![a] = ReadyAgent(agents[a], workers[j].kw)]
          /\ jobs' = [jobs EXCEPT ![j] = CompletedJob(jobs[j])]
          /\ workers' = [workers EXCEPT ![j] = Returned(@, @.raised)]
       \/ \E l \in ErrLens : HandleException(j, 100, l, TRUE)
    /\ UNCHANGED <<chunks, deleted, active_jobs, creq, chat, resp>>
    /\ UNCHANGED aside

\* ------------------------------------------------------------- chat path
\* agent_service.get_agent: exact match on the name as given
GetAgent(u, name) == AgentsOwned(u, name)

\* ReasoningEngine._load_agent, line 197: the rows among which
\* db.query(Agent).filter(Agent.name == agent_name).first() picks
LoadTargets(name) == AgentsNamed(name)

\* chat_json lines 66-74: 404 without the agent, 400 unless it is ready
ChatAdmits(a) == agents[a].status = "ready"

\* chat_json lines 66-94 and reason() lines 96-120 up to the search call;
\* an out-of-domain query is answered without retrieval
ChatStart(u, raw) ==
    /\ chat.pc = "idle"
    /\ \E a \in GetAgent(u, raw) :
         /\ ChatAdmits(a)
         /\ \E t \in LoadTargets(agents[a].name) :
              chat' = [pc |-> "rows", owner |-> a, target |-> t, rows |-> {}]
    /\ UNCHANGED <<agents, jobs, chunks, deleted, active_jobs, creq, workers, resp>>
    /\ UNCHANGED aside

\* HybridSearcher.search lines 59-77: the rows of the hybrid_search query;
\* when there are none, the semantic-only query runs at once
ChatSearchRows ==
    /\ chat.pc = "rows"
    /\ chat' = IF ChunksOf(chat.target) = {}
                 THEN NoChat
                 ELSE [chat EXCEPT !.pc = "fetch", !.rows = ChunksOf(chat.target)]
    /\ UNCHANGED <<agents, jobs, chunks, deleted, active_jobs, creq, workers, resp>>
    /\ UNCHANGED aside

\* lines 80-90: the chunk objects of those rows that are still stored
FetchResult == {c \in chunks : c \in chat.rows}

ChatSearchFetch ==
    /\ chat.pc = "fetch"
    /\ chat' = NoChat
    /\ UNCHANGED <<agents, jobs, chunks, deleted, active_jobs, creq, workers, resp>>
    /\ UNCHANGED aside

\* ------------------------------------------------------ inference service
\* _load_agent lines 199-208: the dict built from the row
AgentData(t) == [id |-> t, status |-> agents[t].status, kw |-> agents[t].kw]

\* InferenceService.chat lines 54-89 for an agent the caller has looked up:
\* only a ready agent gets to the engine; get_engine lines 22-28 keeps one
\* engine per agent id; _load_agent lines 192-214 answers from the engine's
\* _agent_cache when the name is in it and fills it otherwise.  No code
\* removes an entry of either cache
InferChat(u, raw) ==
    /\ infer.pc = "idle"
    /\ \E a \in GetAgent(u, raw) :
         /\ agents[a].status = "ready"
         /\ IF engine_cache[a] # NoSnapshot
              THEN /\ infer' = [pc |-> "reason", snap |-> engine_cache[a]]
                   /\ UNCHANGED engine_cache
              ELSE \E t \in LoadTargets(agents[a].name) :
                     /\ engine_cache' = [engine_cache EXCEPT ![a] = AgentData(t)]
                     /\ infer' = [pc |-> "reason", snap |-> AgentData(t)]
    /\ UNCHANGED <<agents, jobs, chunks, deleted, active_jobs, creq, workers,
                   chat, resp, calls, sub, query,
                 att, faith, analysis, run>>

\* lines 91-98: the result goes back to the caller
InferReturn ==
    /\ infer.pc = "reason"
    /\ infer' = NoInfer
    /\ UNCHANGED <<agents, jobs, chunks, deleted, active_jobs, creq, workers,
                   chat, resp, calls, engine_cache, sub, query,
                 att, faith, analysis, run>>

\* ------------------------------------------------- compile progress socket
\* CompilationWorker.get_job_status, lines 191-206: the latest job of the
\* agent, None without one
get_job_status(a) ==
    IF JobsOf(a) = {} THEN -1
    ELSE LET j == CHOOSE x \in JobsOf(a) : \A y \in JobsOf(a) : y <= x
         IN jobs[j].progress

\* lines 59-63
StatusData(a) ==
    [type |-> "progress", agent_status |-> agents[a].status,
     job |-> get_job_status(a)]

\* lines 69-72
CompleteData(st) == [type |-> "complete", agent_status |-> st, job |-> -1]

\* line 45: manager.connect accepts the socket
SubConnect(raw) ==
    /\ sub.pc = "off"
    /\ sub' = [pc |-> "poll", name |-> raw, last |-> NoEvent]
    /\ UNCHANGED <<agents, jobs, chunks, deleted, active_jobs, creq, workers,
                   chat, resp, calls, engine_cache, infer, query,
                 att, faith, analysis, run>>

\* lines 50-65: find an agent by the name alone, send its status data; with
\* no such agent nothing is sent
SubPoll ==
    /\ sub.pc = "poll"
    /\ \/ /\ AgentsNamed(sub.name) = {}
          /\ sub' = [sub EXCEPT !.pc = "sleep"]
       \/ \E a \in AgentsNamed(sub.name) :
            sub' = [sub EXCEPT !.last = StatusData(a),
                               !.pc = IF agents[a].status \in {"ready", "failed"}
                                        THEN "complete" ELSE "sleep"]
    /\ UNCHANGED <<agents, jobs, chunks, deleted, active_jobs, creq, workers,
                   chat, resp, calls, engine_cache, infer, query,
                 att, faith, analysis, run>>

\* lines 68-73: the complete event, then the loop and the handler end
SubComplete ==
    /\ sub.pc = "complete"
    /\ sub' = [sub EXCEPT !.last = CompleteData(sub.last.agent_status),
                          !.pc = "closed"]
    /\ UNCHANGED <<agents, jobs, chunks, deleted, active_jobs, creq, workers,
                   chat, resp, calls, engine_cache, infer, query,
                 att, faith, analysis, run>>

\* lines 78-84: sleep, then a short wait for a client message
SubWake ==
    /\ sub.pc = "sleep"
    /\ sub' = [sub EXCEPT !.pc = "poll"]
    /\ UNCHANGED <<agents, jobs, chunks, deleted, active_jobs, creq, workers,
                   chat, resp, calls, engine_cache, infer, query,
                 att, faith, analysis, run>>

\* lines 86-90: the client has gone, a send or the receive raises
SubDisconnect ==
    /\ sub.pc \in {"poll", "sleep", "complete"}
    /\ sub' = [sub EXCEPT !.pc = "gone"]
    /\ UNCHANGED <<agents, jobs, chunks, deleted, active_jobs, creq, workers,
                   chat, resp, calls, engine_cache, infer, query,
                 att, faith, analysis, run>>

\* ------------------------------------------------------------ confidence
\* values in thousandths unless said otherwise
Max(a, b) == IF a > b THEN a ELSE b

\* round(x, k) on a value given in units 1000 times finer than the result
Round(x) ==
    LET fl == x \div 1000
        r == x % 1000
    IN IF r > 500 \/ (r = 500 /\ fl % 2 = 1) THEN fl + 1 ELSE fl

\* Reranker.rerank lines 76-100: the score of the best chunk, 0.5 for every
\* chunk when the model is not there or predict raises; in hundredths
rerank(rerank_score, reranker_up) == IF reranker_up THEN rerank_score ELSE 50

\* FaithfulnessScorer._is_supported lines 157-179: YES in the response,
\* True when the call raises
is_supported(verdict, raises) == raises \/ verdict = "YES"

\* FaithfulnessScorer.score lines 73-97: 1.0 without claims, else the share
\* of supported claims rounded to three places
score(verdicts, failing) ==
    LET supported == Cardinality({i \in 1..Len(verdicts) :
                                     is_supported(verdicts[i], i \in failing)})
    IN IF Len(verdicts) = 0 THEN 1000
       ELSE Round((supported * 1000000) \div Len(verdicts))

\* _calculate_confidence line 343: min(1.0, max(0, (rerank_score + 10) / 20))
NormRerank(rerank_score) == Min(1000, Max(0, (rerank_score + 1000) \div 2))

\* a confidence that is not clamped
calculate_confidence_open(top_similarity, rerank_score, faithfulness) ==
    LET norm_rerank == NormRerank(rerank_score)
        norm_similarity == Min(1000, top_similarity)
    IN Round(norm_similarity * 35 + norm_rerank * 30 + faithfulness * 25 + 10000)

\* ReasoningEngine._calculate_confidence lines 341-359; top_similarity in
\* units of 1/30000, rerank_score in hundredths, the result in hundredths
calculate_confidence(top_similarity, rerank_score, faithfulness) ==
    LET norm_rerank == NormRerank(rerank_score)
        norm_similarity == Min(1000, top_similarity)
        weighted == norm_similarity * 35 + norm_rerank * 30
                      + faithfulness * 25 + 10000
        confidence ==
            IF norm_similarity > 700 /\ faithfulness > 800
              THEN Max(weighted, 75000)
            ELSE IF norm_similarity < 300 THEN Min(weighted, 45000)
            ELSE weighted
    IN Round(Min(95000, Max(15000, confidence)))

\* reason() lines 108-162: 0.1 from _create_out_of_domain_response, 0.2 from
\* _create_no_results_response, else the confidence of the best hit, the
\* best rerank score and the faithfulness score
ReasonConfidence(qr) ==
    IF ~qr.in_domain THEN 10
    ELSE IF ~qr.hits THEN 20
    ELSE calculate_confidence(qr.top_similarity,
                              rerank(qr.rerank_score, qr.reranker_up),
                              score(qr.verdicts, qr.failing))

\* lines 111-116: the guardrail rejects the query
ReasonOutOfDomain ==
    /\ query.pc = "new"
    /\ ~query.in_domain
    /\ query' = [query EXCEPT !.pc = "answered", !.confidence = ReasonConfidence(query)]
    /\ UNCHANGED <<agents, jobs, chunks, deleted, active_jobs, creq, workers,
                   chat, resp, calls, engine_cache, infer, sub,
                 att, faith, analysis, run>>

\* lines 118-124: no searcher or no search result
ReasonNoResults ==
    /\ query.pc = "new"
    /\ query.in_domain /\ ~query.hits
    /\ query' = [query EXCEPT !.pc = "answered", !.confidence = ReasonConfidence(query)]
    /\ UNCHANGED <<agents, jobs, chunks, deleted, active_jobs, creq, workers,
                   chat, resp, calls, engine_cache, infer, sub,
                 att, faith, analysis, run>>

\* lines 126-184: rerank, answer, faithfulness, confidence
ReasonAnswer ==
    /\ query.pc = "new"
    /\ query.in_domain /\ query.hits
    /\ query' = [query EXCEPT
                   !.pc = "answered",
                   !.norm_rerank =
                       NormRerank(rerank(query.rerank_score, query.reranker_up)),
                   !.confidence = ReasonConfidence(query)]
    /\ UNCHANGED <<agents, jobs, chunks, deleted, active_jobs, creq, workers,
                   chat, resp, calls, engine_cache, infer, sub,
                 att, faith, analysis, run>>

\* ------------------------------------------------------ source attribution
\* A text is a sequence of words: what str.split() returns for a text whose
\* words are one space apart. "w." ends a sentence, "u" is a word that never
\* carries a full stop, "[1]" and "[2]" are the citation markers.
EndsSentence(word) == word = "w."

\* the answers attribute() is called with: up to MaxSentences of these in a row
SentenceKinds == { <<"w", "w", "w", "w.">>, <<"v", "w", "w", "w.">>,
                   <<"w", "w.">>, <<"w", "w", "w", "u">> }

RECURSIVE Answers(_)
Answers(n) ==
    IF n = 0 THEN { <<>> }
    ELSE Answers(n - 1) \cup { a \o k : a \in Answers(n - 1), k \in SentenceKinds }

\* the chunk ids of the retrieved chunks; _get_id gives 0 for a chunk without id
ChunkLists == { <<>>, <<7>>, <<7, 9>>, <<0, 0>> }

\* SourceAttributor._split_sentences: re.split(r'(?<=[.!?])\s+', text), the
\* empty pieces dropped
RECURSIVE split_sentences(_)
split_sentences(text) ==
    IF text = <<>> THEN <<>>
    ELSE LET ends == { i \in 1..Len(text) : EndsSentence(text[i]) \/ i = Len(text) }
             cut == CHOOSE i \in ends : \A k \in ends : i <= k
         IN <<SubSeq(text, 1, cut)>>
               \o split_sentences(SubSeq(text, cut + 1, Len(text)))

\* f"[{citation_num}]"
Citation(num) == IF num = 1 THEN "[1]" ELSE IF num = 2 THEN "[2]" ELSE "[3]"

\* the entry of a chunk id in the dict sources_used, kept in insertion order
HasSource(sources_used, chunk_id) ==
    \E i \in 1..Len(sources_used) : sources_used[i].chunk_id = chunk_id

\* an assignment that is made whether or not the chunk has a number already
assign_citation_always(sources_used, chunk_id) ==
    IF HasSource(sources_used, chunk_id)
      THEN [i \in 1..Len(sources_used) |->
              IF sources_used[i].chunk_id = chunk_id
                THEN [sources_used[i] EXCEPT !.num = Len(sources_used) + 1]
                ELSE sources_used[i]]
      ELSE Append(sources_used,
                  [chunk_id |-> chunk_id, num |-> Len(sources_used) + 1])

\* attribute, lines 101-102: a chunk cited for the first time gets the next
\* number
assign_citation(sources_used, chunk_id) ==
    IF HasSource(sources_used, chunk_id)
      THEN sources_used
      ELSE Append(sources_used,
                  [chunk_id |-> chunk_id, num |-> Len(sources_used) + 1])

\* line 103: citation_num = sources_used[chunk_id]
citation_num(sources_used, chunk_id) ==
    LET i == CHOOSE k \in 1..Len(sources_used) :
                 sources_used[k].chunk_id = chunk_id
    IN sources_used[i].num

\* str.find on words: the first place where text occurs in result, 0 if none
Find(text, result) ==
    LET places == { i \in 1..(Len(result) - Len(text) + 1) :
                      SubSeq(result, i, i + Len(text) - 1) = text }
    IN IF places = {} THEN 0 ELSE CHOOSE i \in places : \A k \in places : i <= k

\* result.replace(attr.text, f"{attr.text} {attr.citation}", 1), made only
\* if attr.text in result
InsertCitation(result, attr) ==
    LET at == Find(attr.text, result)
    IN IF at = 0 THEN result
       ELSE SubSeq(result, 1, at + Len(attr.text) - 1)
              \o <<Citation(attr.num)>>
              \o SubSeq(result, at + Len(attr.text), Len(result))

\* SourceAttributor._build_cited_answer: the attributed sentences are taken
\* in reverse order
RECURSIVE build_cited_answer(_, _)
build_cited_answer(answer, attributed) ==
    IF attributed = <<>> THEN answer
    ELSE build_cited_answer(
             InsertCitation(answer, attributed[Len(attributed)]),
             SubSeq(attributed, 1, Len(attributed) - 1))

\* sorted(sources_used.items(), key=lambda x: x[1]): a stable sort by number
RECURSIVE SortedByNum(_, _)
SortedByNum(sources_used, n) ==
    IF n = 0 THEN <<>>
    ELSE SortedByNum(sources_used, n - 1)
           \o SelectSeq(sources_used, LAMBDA e : e.num = n)

\* attribute, lines 118-129: one entry per cited chunk that has a sentence
build_sources(sources_used, attributed) ==
    LET cited(e) == \E i \in 1..Len(attributed) :
                        attributed[i].source_chunk_id = e.chunk_id
        listed == SelectSeq(SortedByNum(sources_used, Len(sources_used) + 1),
                            cited)
    IN [i \in 1..Len(listed) |->
          [citation |-> listed[i].num, chunk_id |-> listed[i].chunk_id]]

\* SourceAttributor._find_best_source: chunks[0] without embeddings or when
\* embedding raises, else the chunk of the highest cosine similarity, which
\* may be any of them
BestSources(chunk_list, emb) ==
    IF emb THEN { chunk_list[i] : i \in 1..Len(chunk_list) }
           ELSE { chunk_list[1] }

\* the locals of attribute(answer, chunks) at its first line
NewAttribute(answer, chunk_list, emb, pass, first) ==
    [pc |-> "start", pass |-> pass, answer |-> answer, chunks |-> chunk_list,
     emb |-> emb, todo |-> <<>>, sources_used |-> <<>>, attributed |-> <<>>,
     result |-> <<>>, first |-> first, sources |-> <<>>]

\* attribute, lines 70-78: an empty answer or no chunks is returned as it is
AttributeStart ==
    /\ att.pc = "start"
    /\ att' = IF att.answer = <<>> \/ att.chunks = <<>>
                THEN [att EXCEPT !.pc = "done", !.result = att.answer]
                ELSE [att EXCEPT !.pc = "loop",
                                 !.todo = split_sentences(att.answer)]
    /\ UNCHANGED <<agents, jobs, chunks, deleted, active_jobs, creq, workers,
                   chat, resp, calls, engine_cache, infer, sub, query,
                   faith, analysis, run>>

\* attribute, lines 89-112: one turn of the loop over the sentences
AttributeSentence ==
    /\ att.pc = "loop"
    /\ att.todo # <<>>
    /\ LET sentence == Head(att.todo)
       IN IF Len(sentence) < MinSentenceWords
            THEN att' = [att EXCEPT !.todo = Tail(att.todo)]
            ELSE \E chunk_id \in BestSources(att.chunks, att.emb) :
                   LET used == assign_citation(att.sources_used, chunk_id)
                   IN att' = [att EXCEPT
                                !.todo = Tail(att.todo),
                                !.sources_used = used,
                                !.attributed =
                                    Append(att.attributed,
                                           [text |-> sentence,
                                            num |-> citation_num(used, chunk_id),
                                            source_chunk_id |-> chunk_id])]
    /\ UNCHANGED <<agents, jobs, chunks, deleted, active_jobs, creq, workers,
                   chat, resp, calls, engine_cache, infer, sub, query,
                   faith, analysis, run>>

\* attribute, lines 114-135: the cited answer and the list of sources
AttributeBuild ==
    /\ att.pc = "loop"
    /\ att.todo = <<>>
    /\ att' = [att EXCEPT
                 !.pc = "done",
                 !.result = build_cited_answer(att.answer, att.attributed),
                 !.sources = build_sources(att.sources_used, att.attributed)]
    /\ UNCHANGED <<agents, jobs, chunks, deleted, active_jobs, creq, workers,
                   chat, resp, calls, engine_cache, infer, sub, query,
                   faith, analysis, run>>

\* attribute() called again, on the answer_with_citations it returned and
\* with the same chunks
AttributeAgain ==
    /\ att.pc = "done"
    /\ att.pass = 1
    /\ att' = NewAttribute(att.result, att.chunks, att.emb, 2, att.result)
    /\ UNCHANGED <<agents, jobs, chunks, deleted, active_jobs, creq, workers,
                   chat, resp, calls, engine_cache, infer, sub, query,
                   faith, analysis, run>>

\* ------------------------------------------------------ faithfulness score
\* score, lines 82-89: the claims that _is_supported turns down, in order
unsupported(verdicts, failing) ==
    LET RECURSIVE rejected(_)
        rejected(i) ==
            IF i = 0 THEN <<>>
            ELSE IF is_supported(verdicts[i], i \in failing)
                   THEN rejected(i - 1)
                   ELSE Append(rejected(i - 1), i)
    IN rejected(Len(verdicts))

\* the whole list of the rejected claims
unsupported_shown_all(rejected) == rejected

\* line 100: unsupported[:5]
unsupported_shown(rejected) ==
    SubSeq(rejected, 1, Min(MaxUnsupportedShown, Len(rejected)))

\* FaithfulnessScorer.score: the FaithfulnessResult; given is false when the
\* answer or the context is empty, verdicts has one entry per extracted claim
FaithfulnessResult(given, verdicts, failing) ==
    IF ~given \/ verdicts = <<>>
      THEN [score |-> 1000, total_claims |-> 0, supported_claims |-> 0,
            unsupported_claims |-> <<>>]
      ELSE [score |-> score(verdicts, failing),
            total_claims |-> Len(verdicts),
            supported_claims |->
                Len(verdicts) - Len(unsupported(verdicts, failing)),
            unsupported_claims |->
                unsupported_shown(unsupported(verdicts, failing))]

FaithfulnessScore ==
    /\ faith.pc = "new"
    /\ faith' = [faith EXCEPT
                   !.pc = "scored",
                   !.result = FaithfulnessResult(faith.given, faith.verdicts,
                                                 faith.failing)]
    /\ UNCHANGED <<agents, jobs, chunks, deleted, active_jobs, creq, workers,
                   chat, resp, calls, engine_cache, infer, sub, query,
                   att, analysis, run>>

\* --------------------------------------------------------- prompt analysis
\* str.lower() on the words that occur here
lower(word) ==
    CASE word = "Medical" -> "medical"
      [] word = "API" -> "api"
      [] word = "IT" -> "it"
      [] OTHER -> word

\* _expand_keywords, lines 124-144: the built-in table
DefaultDomains == {"medical", "legal", "cooking", "technology", "finance"}

domain_defaults(domain) ==
    CASE domain = "medical" ->
           <<"health", "patient", "doctor", "treatment", "diagnosis",
             "symptoms", "medicine", "hospital", "disease", "therapy",
             "prescription", "clinic", "medical", "healthcare", "wellness",
             "condition", "care", "physician", "nurse", "medication">>
      [] domain = "legal" ->
           <<"law", "court", "legal", "attorney", "lawyer", "case",
             "contract", "rights", "litigation", "judge", "verdict",
             "lawsuit", "compliance", "regulation", "statute", "defendant",
             "plaintiff", "trial", "evidence", "testimony">>
      [] domain = "cooking" ->
           <<"recipe", "cook", "ingredient", "food", "kitchen", "meal",
             "dish", "flavor", "cuisine", "bake", "chef", "cooking", "taste",
             "serve", "prepare", "dinner", "lunch", "breakfast", "snack",
             "dessert">>
      [] domain = "technology" ->
           <<"software", "code", "programming", "computer", "system", "data",
             "network", "security", "cloud", "application", "development",
             "algorithm", "database", "API", "server", "hardware", "digital",
             "technology", "tech", "IT">>
      [] domain = "finance" ->
           <<"money", "investment", "bank", "finance", "budget", "tax",
             "stock", "credit", "loan", "savings", "financial", "accounting",
             "capital", "asset", "portfolio", "market", "trading",
             "insurance", "wealth", "income">>

Contains(keywords, word) == \E i \in 1..Len(keywords) : keywords[i] = word

\* lines 151-153: the defaults are added while they are new and there is room
RECURSIVE add_defaults(_, _)
add_defaults(keywords, defaults) ==
    IF defaults = <<>> THEN keywords
    ELSE add_defaults(
             IF ~Contains(keywords, Head(defaults)) /\ Len(keywords) < MaxKeywords
               THEN Append(keywords, Head(defaults))
               ELSE keywords,
             Tail(defaults))

\* lines 155-157: the domain is appended if no keyword equals it in lower case
add_domain(keywords, domain) ==
    IF \E i \in 1..Len(keywords) : lower(keywords[i]) = lower(domain)
      THEN keywords
      ELSE Append(keywords, domain)

\* PromptAnalyzer._expand_keywords
expand_keywords(existing, domain) ==
    LET withDefaults == IF lower(domain) \in DefaultDomains
                          THEN add_defaults(existing,
                                            domain_defaults(lower(domain)))
                          ELSE existing
        keywords == add_domain(withDefaults, domain)
    IN SubSeq(keywords, 1, Min(MaxKeywords, Len(keywords)))

\* PromptAnalyzer._ensure_fields on the domain and the keywords of the LLM's
\* JSON; has_domain and has_keywords are false for a missing or null field
ensure_fields(has_domain, llm_domain, has_keywords, llm_keywords) ==
    LET domain == IF has_domain THEN llm_domain ELSE "general"
        given == IF has_keywords THEN llm_keywords ELSE <<>>
    IN [domain |-> domain,
        domain_keywords |-> IF Len(given) < MinKeywords
                              THEN expand_keywords(given, domain)
                              ELSE given]

\* _create_fallback_analysis, lines 167-173: the indicator words of a domain
domain_indicators(domain) ==
    CASE domain = "medical" ->
           {"medical", "doctor", "patient", "health", "hospital", "treatment"}
      [] domain = "legal" ->
           {"legal", "law", "attorney", "court", "contract", "rights"}
      [] domain = "cooking" ->
           {"cook", "recipe", "food", "chef", "kitchen", "ingredient"}
      [] domain = "technology" ->
           {"tech", "software", "code", "programming", "computer"}
      [] domain = "finance" ->
           {"finance", "money", "bank", "investment", "budget"}

IndicatorOrder == <<"medical", "legal", "cooking", "technology", "finance">>

\* lines 175-179: the first domain of the table with an indicator among the
\* words of the prompt
detected_domain(words) ==
    LET hits == { i \in 1..Len(IndicatorOrder) :
                    domain_indicators(IndicatorOrder[i]) \cap words # {} }
    IN IF hits = {} THEN "general"
       ELSE IndicatorOrder[CHOOSE i \in hits : \A k \in hits : i <= k]

\* PromptAnalyzer._create_fallback_analysis
create_fallback_analysis(words) ==
    [domain |-> detected_domain(words),
     domain_keywords |-> expand_keywords(<<>>, detected_domain(words))]

\* analyze_prompt, lines 72-86: the LLM answered with JSON
AnalyzeLlm ==
    /\ analysis.pc = "new"
    /\ analysis.llm_ok
    /\ analysis' = [analysis EXCEPT
                      !.pc = "llm",
                      !.result = ensure_fields(analysis.has_domain,
                                               analysis.llm_domain,
                                               analysis.has_keywords,
                                               analysis.llm_keywords)]
    /\ UNCHANGED <<agents, jobs, chunks, deleted, active_jobs, creq, workers,
                   chat, resp, calls, engine_cache, infer, sub, query,
                   att, faith, run>>

\* analyze_prompt, lines 88-93: the call raised or its answer was not JSON
AnalyzeFallback ==
    /\ analysis.pc = "new"
    /\ ~analysis.llm_ok
    /\ analysis' = [analysis EXCEPT
                      !.pc = "fallback",
                      !.result = create_fallback_analysis(analysis.words)]
    /\ UNCHANGED <<agents, jobs, chunks, deleted, active_jobs, creq, workers,
                   chat, resp, calls, engine_cache, infer, sub, query,
                   att, faith, run>>

\* ------------------------------------------------------- stages of reason
\* the calls reason() makes to its components, in the order of the code
StageOrder == <<"search", "rerank", "generate", "attribute", "score">>

\* a guardrail result that never stops the call
RejectedNever(in_domain) == FALSE

\* line 110: if not in_domain
Rejected(in_domain) == ~in_domain

\* lines 96-115: _load_agent and _check_guardrail, which matches words and
\* calls no component; a rejected query gets _create_out_of_domain_response
ReasonGuardrail ==
    /\ run.pc = "guardrail"
    /\ run' = IF Rejected(run.in_domain)
                THEN [run EXCEPT !.pc = "returned",
                                 !.result = [in_domain |-> FALSE,
                                             confidence |-> 10]]
                ELSE [run EXCEPT !.pc = "search"]
    /\ UNCHANGED <<agents, jobs, chunks, deleted, active_jobs, creq, workers,
                   chat, resp, calls, engine_cache, infer, sub, query,
                   att, faith, analysis>>

\* lines 118-124: searcher.search if there is a searcher; without results
\* _create_no_results_response
ReasonSearch ==
    /\ run.pc = "search"
    /\ LET called == IF run.searcher THEN Append(run.stages, "search")
                                     ELSE run.stages
       IN run' = IF run.searcher /\ run.hits
                   THEN [run EXCEPT !.pc = "rerank", !.stages = called]
                   ELSE [run EXCEPT !.pc = "returned", !.stages = called,
                                    !.result = [in_domain |-> TRUE,
                                                confidence |-> 20]]
    /\ UNCHANGED <<agents, jobs, chunks, deleted, active_jobs, creq, workers,
                   chat, resp, calls, engine_cache, infer, sub, query,
                   att, faith, analysis>>

\* lines 127-132: reranker.rerank
ReasonRerank ==
    /\ run.pc = "rerank"
    /\ run' = [run EXCEPT !.pc = "generate",
                          !.stages = Append(run.stages, "rerank")]
    /\ UNCHANGED <<agents, jobs, chunks, deleted, active_jobs, creq, workers,
                   chat, resp, calls, engine_cache, infer, sub, query,
                   att, faith, analysis>>

\* lines 135-141: _generate_answer, the LLM call
ReasonGenerate ==
    /\ run.pc = "generate"
    /\ run' = [run EXCEPT !.pc = "attribute",
                          !.stages = Append(run.stages, "generate")]
    /\ UNCHANGED <<agents, jobs, chunks, deleted, active_jobs, creq, workers,
                   chat, resp, calls, engine_cache, infer, sub, query,
                   att, faith, analysis>>

\* lines 144-151: attributor.attribute
ReasonAttribute ==
    /\ run.pc = "attribute"
    /\ run' = [run EXCEPT !.pc = "score",
                          !.stages = Append(run.stages, "attribute")]
    /\ UNCHANGED <<agents, jobs, chunks, deleted, active_jobs, creq, workers,
                   chat, resp, calls, engine_cache, infer, sub, query,
                   att, faith, analysis>>

\* lines 154-188: faithfulness_scorer.score, the confidence and the answer
ReasonScore ==
    /\ run.pc = "score"
    /\ run' = [run EXCEPT
                 !.pc = "returned",
                 !.stages = Append(run.stages, "score"),
                 !.result =
                     [in_domain |-> TRUE,
                      confidence |->
                          calculate_confidence(
                              run.top_similarity,
                              rerank(run.rerank_score, run.reranker_up),
                              run.faithfulness)]]
    /\ UNCHANGED <<agents, jobs, chunks, deleted, active_jobs, creq, workers,
                   chat, resp, calls, engine_cache, infer, sub, query,
                   att, faith, analysis>>

Next ==
    \/ \E u \in Users, raw \in RawNames : CreateAgent(u, raw)
    \/ \E u \in Users, raw \in RawNames : CompileCreate(u, raw)
    \/ \E a \in AgentIds : CompileAbort(a)
    \/ \E a \in AgentIds : StartCompilation(a)
    \/ \E j \in JobIds : WorkerLoad(j)
    \/ \E j \in JobIds : WorkerAnalyze(j)
    \/ \E j \in JobIds : WorkerInit(j)
    \/ \E j \in JobIds : WorkerProgress(j)
    \/ \E j \in JobIds : WorkerCompile(j)
    \/ \E j \in JobIds : WorkerFinal(j)
    \/ \E u \in Users, raw \in RawNames : ChatStart(u, raw)
    \/ ChatSearchRows
    \/ ChatSearchFetch

Spec == Init /\ [][Next]_vars

\* the registry and the compilation workers with agents being deleted
NextDelete ==
    \/ \E u \in Users, raw \in RawNames : CreateAgent(u, raw)
    \/ \E u \in Users, raw \in RawNames : CompileCreate(u, raw)
    \/ \E a \in AgentIds : CompileAbort(a)
    \/ \E a \in AgentIds : StartCompilation(a)
    \/ \E u \in Users, raw \in RawNames : DeleteAgent(u, raw)
    \/ \E j \in JobIds : WorkerLoad(j)
    \/ \E j \in JobIds : WorkerAnalyze(j)
    \/ \E j \in JobIds : WorkerInit(j)
    \/ \E j \in JobIds : WorkerProgress(j)
    \/ \E j \in JobIds : WorkerCompile(j)
    \/ \E j \in JobIds : WorkerFinal(j)

SpecDelete == Init /\ [][NextDelete]_vars

\* the inference service with its engines kept across calls, while agents
\* are compiled and deleted
NextInfer ==
    \/ \E u \in Users, raw \in RawNames : CompileCreate(u, raw)
    \/ \E a \in AgentIds : CompileAbort(a)
    \/ \E a \in AgentIds : StartCompilation(a)
    \/ \E u \in Users, raw \in RawNames : DeleteAgent(u, raw)
    \/ \E j \in JobIds : WorkerLoad(j)
    \/ \E j \in JobIds : WorkerAnalyze(j)
    \/ \E j \in JobIds : WorkerInit(j)
    \/ \E j \in JobIds : WorkerProgress(j)
    \/ \E j \in JobIds : WorkerCompile(j)
    \/ \E j \in JobIds : WorkerFinal(j)
    \/ \E u \in Users, raw \in RawNames : InferChat(u, raw)
    \/ InferReturn

SpecInfer == Init /\ [][NextInfer]_vars

\* a websocket client following the compilation of agents, in the runs
\* where one tenant compiles and the other only creates agents; the handler
\* is a coroutine of the event loop and keeps being scheduled
NextSubscribe ==
    \/ \E u \in Creators, raw \in RawNames : CreateAgent(u, raw)
    \/ \E u \in Compilers, raw \in RawNames : CompileCreate(u, raw)
    \/ \E a \in AgentIds : CompileAbort(a)
    \/ \E a \in AgentIds : StartCompilation(a)
    \/ \E j \in JobIds : WorkerLoad(j)
    \/ \E j \in JobIds : WorkerAnalyze(j)
    \/ \E j \in JobIds : WorkerInit(j)
    \/ \E j \in JobIds : WorkerProgress(j)
    \/ \E j \in JobIds : WorkerCompile(j)
    \/ \E j \in JobIds : WorkerFinal(j)
    \/ \E raw \in RawNames : SubConnect(raw)
    \/ SubPoll
    \/ SubComplete
    \/ SubWake
    \/ SubDisconnect

SpecSubscribe ==
    /\ Init
    /\ [][NextSubscribe]_vars
    /\ WF_vars(SubPoll)
    /\ WF_vars(SubComplete)
    /\ WF_vars(SubWake)

\* reason() on every combination of what its steps may return
VerdictLists == UNION {[1..n -> {"YES", "NO"}] : n \in 0..MaxClaims}

InitConfidence ==
    /\ agents = <<>>
    /\ jobs = <<>>
    /\ chunks = {}
    /\ deleted = {}
    /\ active_jobs = [a \in AgentIds |-> 0]
    /\ creq = {}
    /\ workers = <<>>
    /\ chat = NoChat
    /\ resp = NoResp
    /\ calls = [t \in Threads |-> NoCall]
    /\ engine_cache = [a \in AgentIds |-> NoSnapshot]
    /\ infer = NoInfer
    /\ sub = NoSub
    /\ \E d, h, up \in BOOLEAN, ts \in Similarities, rr \in RerankScores,
          v \in VerdictLists :
         \E f \in SUBSET (1..Len(v)) :
            query = [pc |-> "new", in_domain |-> d, hits |-> h,
                     top_similarity |-> ts, rerank_score |-> rr,
                     reranker_up |-> up, verdicts |-> v, failing |-> f,
                     norm_rerank |-> -1, confidence |-> -1]
    /\ att = NoAtt
    /\ faith = NoFaith
    /\ analysis = NoAnalysis
    /\ run = NoRun

NextConfidence ==
    \/ ReasonOutOfDomain
    \/ ReasonNoResults
    \/ ReasonAnswer

SpecConfidence == InitConfidence /\ [][NextConfidence]_vars

\* every table empty and no handler in flight
Quiet ==
    /\ agents = <<>>
    /\ jobs = <<>>
    /\ chunks = {}
    /\ deleted = {}
    /\ active_jobs = [a \in AgentIds |-> 0]
    /\ creq = {}
    /\ workers = <<>>
    /\ chat = NoChat
    /\ resp = NoResp
    /\ calls = [t \in Threads |-> NoCall]
    /\ engine_cache = [a \in AgentIds |-> NoSnapshot]
    /\ infer = NoInfer
    /\ sub = NoSub

\* attribute() on every answer and chunk list, with and without embeddings,
\* and once more on what it returned
InitAttribute ==
    /\ Quiet
    /\ query = NoQuery
    /\ faith = NoFaith
    /\ analysis = NoAnalysis
    /\ run = NoRun
    /\ \E answer \in Answers(MaxSentences), chunk_list \in ChunkLists,
          emb \in BOOLEAN :
         att = NewAttribute(answer, chunk_list, emb, 1, <<>>)

NextAttribute ==
    \/ AttributeStart
    \/ AttributeSentence
    \/ AttributeBuild
    \/ AttributeAgain

SpecAttribute == InitAttribute /\ [][NextAttribute]_vars

\* score() on every list of verdicts, each support check answering or raising
ScoredLists == UNION {[1..n -> {"YES", "NO"}] : n \in 0..MaxScored}

InitFaithfulness ==
    /\ Quiet
    /\ query = NoQuery
    /\ att = NoAtt
    /\ analysis = NoAnalysis
    /\ run = NoRun
    /\ \E given \in BOOLEAN, v \in ScoredLists :
         \E f \in SUBSET (1..Len(v)) :
            faith = [pc |-> "new", given |-> given, verdicts |-> v,
                     failing |-> f,
                     result |-> [score |-> -1, total_claims |-> -1,
                                 supported_claims |-> -1,
                                 unsupported_claims |-> <<>>]]

NextFaithfulness ==
    \/ FaithfulnessScore

SpecFaithfulness == InitFaithfulness /\ [][NextFaithfulness]_vars

\* analyze_prompt on prompts with and without indicator words, the LLM
\* failing or returning a domain and up to MaxLlmKeywords keywords
PromptWords == {"doctor", "law", "hello"}

LlmDomains == {"medical", "Medical", "technology", "general", "pets"}

LlmPool == <<"k1", "k2", "k3", "k4", "k5", "k6", "k7", "k8", "k9", "k10",
             "k11", "k12", "k13", "k14", "k15", "k16", "k17", "k18", "k19",
             "k20", "k21", "k22">>

LlmHeads == { <<>>, <<"medical">>, <<"health">>, <<"pets">> }

LlmKeywordLists ==
    { h \o SubSeq(LlmPool, 1, n) : h \in LlmHeads, n \in 0..MaxLlmKeywords }

InitAnalyze ==
    /\ Quiet
    /\ query = NoQuery
    /\ att = NoAtt
    /\ faith = NoFaith
    /\ \E words \in SUBSET PromptWords, ok, hd, hk \in BOOLEAN,
          d \in LlmDomains, k \in LlmKeywordLists :
         analysis = [pc |-> "new", words |-> words, llm_ok |-> ok,
                     has_domain |-> hd, llm_domain |-> d,
                     has_keywords |-> hk, llm_keywords |-> k,
                     result |-> [domain |-> "", domain_keywords |-> <<>>]]
    /\ run = NoRun

NextAnalyze ==
    \/ AnalyzeLlm
    \/ AnalyzeFallback

SpecAnalyze == InitAnalyze /\ [][NextAnalyze]_vars

\* reason() stage by stage, on every outcome of the guardrail and the search
Faithfulnesses == {0, 500, 1000}

InitStages ==
    /\ Quiet
    /\ query = NoQuery
    /\ att = NoAtt
    /\ faith = NoFaith
    /\ analysis = NoAnalysis
    /\ \E d, s, h, up \in BOOLEAN, ts \in Similarities, rr \in RerankScores,
          fs \in Faithfulnesses :
         run = [pc |-> "guardrail", in_domain |-> d, searcher |-> s,
                hits |-> h, reranker_up |-> up, top_similarity |-> ts,
                rerank_score |-> rr, faithfulness |-> fs, stages |-> <<>>,
                result |-> [in_domain |-> TRUE, confidence |-> -1]]

NextStages ==
    \/ ReasonGuardrail
    \/ ReasonSearch
    \/ ReasonRerank
    \/ ReasonGenerate
    \/ ReasonAttribute
    \/ ReasonScore

SpecStages == InitStages /\ [][NextStages]_vars

\* create_agent calls of several request threads, interleaved
NextCreate ==
    \/ \E t \in Threads, u \in Users, raw \in RawNames : CreateCheck(t, u, raw)
    \/ \E t \in Threads : CreateInsert(t)
    \/ \E t \in Threads : CreateFailed(t)

SpecCreate == Init /\ [][NextCreate]_vars

\* ================================================================ claims
Ready(a) == AgentExists(a) /\ agents[a].status = "ready"

\* C1: in every reachable state each agent has at most one compilation job
\* with status in_progress, whatever compile requests were made for it.
OneInProgressJobPerAgent ==
    \A a \in 1..Len(agents) : Cardinality(InProgressJobs(a)) <= 1

\* an agent has a job in progress and a further compile request that named
\* it has been answered with 400
SecondCompileSeen ==
    \E a \in 1..Len(agents) :
        /\ resp = [op |-> "compile", status |-> 400, agent |-> a]
        /\ Cardinality(InProgressJobs(a)) = 1

\* C2: in every reachable state a ready agent has at least one stored chunk
\* and a non-empty domain_keywords list, whatever failed inside the run.
ReadyHasChunksAndKeywords ==
    \A a \in 1..Len(agents) :
        Ready(a) => ChunksOf(a) # {} /\ agents[a].kw > 0

\* C3: a run in which some step raised ends with the job failed, an
\* error_message of at most 500 characters and the agent failed.
RaisedRunEndsFailed ==
    \A j \in 1..Len(workers) :
        (workers[j].pc = "done" /\ workers[j].raised /\ JobExists(j)) =>
            /\ jobs[j].status = "failed"
            /\ jobs[j].errlen \in 1..MaxErrorLen
            /\ agents[jobs[j].agent_id].status = "failed"

\* all chunks of a set come from one save
OneBatch(S) == \A c, d \in S : c.batch = d.batch

\* C4: while chunks are replaced, a search returns the complete set it
\* started from or the complete set now stored, and never chunks of two saves.
ReaderSeesOldOrNew ==
    chat.pc = "fetch" =>
        /\ FetchResult = chat.rows \/ FetchResult = ChunksOf(chat.target)
        /\ OneBatch(FetchResult)

\* C5: no step lowers the progress of a job, and progress stays within 0..100.
ProgressNeverRegresses ==
    [][\A j \in 1..Len(jobs) :
          jobs'[j].live =>
              /\ jobs'[j].progress >= jobs[j].progress
              /\ jobs'[j].progress \in 0..100]_vars

\* a job has failed after some milestone was committed
FailedAfterProgress ==
    \E j \in 1..Len(jobs) : jobs[j].status = "failed" /\ jobs[j].progress >= 30

\* C6: every compilation job ends completed or failed with its agent ready
\* or failed: once the worker has returned, both are in a terminal status.
ReturnedWorkerLeftTerminal ==
    \A j \in 1..Len(workers) :
        (workers[j].pc = "done" /\ JobExists(j)) =>
            /\ jobs[j].status \in {"completed", "failed"}
            /\ agents[jobs[j].agent_id].status \in {"ready", "failed"}

\* C7: while an agent has a job in progress, no step gives its owner a
\* second agent of that name or the agent a second job, and the step that
\* answers a compile request with 400 changes no agent, job or worker.
ConflictingCompileRejected ==
    [][/\ \A a \in 1..Len(agents) :
             InProgressJobs(a) # {} =>
                /\ \A b \in (Len(agents) + 1)..Len(agents') :
                      ~(agents'[b].user = agents[a].user /\ agents'[b].name = agents[a].name)
                /\ \A k \in (Len(jobs) + 1)..Len(jobs') : jobs'[k].agent_id # a
       /\ (resp' # resp /\ resp'.op = "compile" /\ resp'.status = 400) =>
             UNCHANGED <<agents, jobs, workers, creq>>
      ]_vars

\* a compile request was answered with 400 while the named agent's job is
\* still in progress and its worker is under way
ConflictRejectedSeen ==
    \E j \in 1..Len(jobs) :
        /\ resp = [op |-> "compile", status |-> 400, agent |-> jobs[j].agent_id]
        /\ jobs[j].status = "in_progress"
        /\ workers[j].pc \notin {"load", "done"}

\* C8: a query against an agent that is not ready performs no retrieval over
\* that agent's chunks.
QueryOnlyReadyAgents ==
    chat.pc \in {"rows", "fetch"} => Ready(chat.target)

\* C9: for every ready agent chunk_count equals the number of chunks stored
\* for it, and both are greater than 0.
ReadyChunkCountMatches ==
    \A a \in 1..Len(agents) :
        Ready(a) => /\ agents[a].chunk_count = Cardinality(ChunksOf(a))
                    /\ agents[a].chunk_count > 0

Rank(st) ==
    CASE st = "initializing" -> 0 [] st = "in_progress" -> 1
      [] st = "ready" -> 2 [] st = "failed" -> 2

\* C10: an agent's status only moves forward in the order initializing,
\* in_progress, then ready or failed; the one backward move is failed to
\* in_progress.
StatusMovesForward ==
    [][\A a \in 1..Len(agents) :
          (a \notin deleted' /\ agents'[a].status # agents[a].status) =>
              \/ Rank(agents[a].status) < Rank(agents'[a].status)
              \/ agents[a].status = "failed" /\ agents'[a].status = "in_progress"
      ]_vars

\* two agents share a name, one has ended ready and the other failed
SameNameReadyAndFailed ==
    \E a, b \in 1..Len(agents) :
        /\ agents[a].name = agents[b].name
        /\ agents[a].status = "ready"
        /\ agents[b].status = "failed"

\* C11: in every reachable state a compilation job has completed_at set if
\* and only if its status is not in_progress.
CompletedAtIffNotInProgress ==
    \A j \in 1..Len(jobs) :
        JobExists(j) => (jobs[j].completed_at <=> jobs[j].status # "in_progress")

\* one job has ended completed and another failed
CompletedAndFailedJobs ==
    \E j, k \in 1..Len(jobs) :
        jobs[j].status = "completed" /\ jobs[k].status = "failed"

\* C12: once a job is completed or failed, no step changes its status, its
\* progress or its completed_at.
TerminalJobsAbsorbing ==
    [][\A j \in 1..Len(jobs) :
          (jobs[j].status \in {"completed", "failed"} /\ jobs'[j].live) =>
              /\ jobs'[j].status = jobs[j].status
              /\ jobs'[j].progress = jobs[j].progress
              /\ jobs'[j].completed_at = jobs[j].completed_at]_vars

\* a job is completed and the chunks stored for its agent were written by
\* another run after it
CompletedJobOverwritten ==
    \E j \in 1..Len(jobs) :
        /\ jobs[j].status = "completed"
        /\ \E c \in ChunksOf(jobs[j].agent_id) : c.batch # j

\* C13: reason() for a tenant's agent loads and searches only that tenant's
\* agent of that name, never another tenant's agent with the same name.
ReasonUsesOwnAgent ==
    chat.pc \in {"rows", "fetch"} => chat.target = chat.owner
IsNormalised(name) ==
    \A i \in 1..Len(name) : name[i] \notin {" ", "A"}

\* C15: every agent row carries a normalised name (trimmed, lower case,
\* underscores for spaces) and no two rows of one tenant carry the same
\* name, however the create_agent calls interleave; a call that finds or
\* hits a duplicate ends in an error and adds no row
NormalisedNamesUnique ==
    /\ \A a \in 1..Len(agents) : IsNormalised(agents[a].name)
    /\ \A a, b \in 1..Len(agents) :
          (a # b /\ agents[a].user = agents[b].user) =>
              agents[a].name # agents[b].name
    /\ \A t \in Threads :
          calls[t].pc \in {"ValueError", "IntegrityError"} =>
              AgentsOwned(calls[t].user, CleanName(calls[t].name)) # {}

\* two calls of one tenant passed the name check together with names that
\* clean to the same one; one of them then added the row and the other
\* ended in an error
DuplicateInsertRefused ==
    \E t1, t2 \in Threads :
        /\ t1 # t2
        /\ calls[t1].pc = "IntegrityError"
        /\ calls[t1].name = <<" ", "A">>
        /\ calls[t2] = NoCall
        /\ Cardinality(AgentsOwned(calls[t1].user, <<"a">>)) = 1

\* C16: a reason() call is never answered from agent data that were read
\* before the agent's status changed or before the agent was deleted
NoStaleSnapshot ==
    [][(infer.pc = "idle" /\ infer'.pc = "reason") =>
          /\ infer'.snap.id \notin deleted'
          /\ infer'.snap.status = agents'[infer'.snap.id].status]_vars
\* the order of the events on one socket: the first event is the status
\* data of an agent of that name as it is stored then, the complete event
\* follows the status data of a ready or failed agent and carries the same
\* status, the stream is closed with it and nothing is sent after it
StreamOrder ==
    [][/\ (sub.last = NoEvent /\ sub'.last # NoEvent) =>
             \E a \in AgentsNamed(sub'.name) : sub'.last = StatusData(a)'
       /\ (sub'.last.type = "complete" /\ sub.last.type # "complete") =>
             /\ sub.last.type = "progress"
             /\ sub.last.agent_status \in {"ready", "failed"}
             /\ sub'.last.agent_status = sub.last.agent_status
             /\ sub'.pc = "closed"
       /\ sub.last.type = "complete" => sub'.last = sub.last
       /\ sub.pc = "closed" => sub'.pc = "closed"]_vars

\* C17: a subscriber first gets the current status data and then updates;
\* once an agent of the name it follows is ready or failed, the subscriber
\* gets the complete event and the stream is closed (unless the client
\* has left), and nothing is sent after the complete event
SubscriberGetsTerminal ==
    /\ StreamOrder
    /\ \A a \in AgentIds :
          (/\ sub.pc \in {"poll", "sleep"}
           /\ AgentExists(a)
           /\ agents[a].name = sub.name
           /\ agents[a].status \in {"ready", "failed"})
             ~> (sub.pc \in {"closed", "gone"})
\* C18: when the write of the new chunk set fails in a compilation, the
\* stored chunks are exactly those stored before the attempt, and so is the
\* agent row with its chunk_count
FailedWriteKeepsOldChunks ==
    [][\A j \in 1..Len(workers) :
          (/\ workers[j].pc = "compile"
           /\ workers'[j].pc = "p80"
           /\ workers'[j].raised) =>
              /\ chunks' = chunks
              /\ agents' = agents]_vars

\* the compile step of a run has raised while the agent its save goes to
\* holds the chunks of an earlier run
RaisedOverStoredChunks ==
    \E j \in 1..Len(workers) :
        /\ workers[j].pc = "p80"
        /\ workers[j].raised
        /\ \E t \in SaveTargets(agents[WorkerAgent(j)].name) :
              \E c \in ChunksOf(t) : c.batch # j
\* C19: the confidence of a response is exactly 0.1 when the guardrail has
\* rejected the query, exactly 0.2 when the search has no result, and lies
\* within 0.15 and 0.95 otherwise, whatever the scores are
ConfidenceInRange ==
    query.pc = "answered" =>
        IF ~query.in_domain THEN query.confidence = 10
        ELSE IF ~query.hits THEN query.confidence = 20
        ELSE query.confidence \in 15..95

\* an answer whose weighted sum is above the range: best retrieval, best
\* rerank score, every claim supported
ConfidenceCapped ==
    /\ query.pc = "answered"
    /\ query.in_domain /\ query.hits
    /\ query.top_similarity = 1500
    /\ query.rerank_score = 1500 /\ query.reranker_up
    /\ score(query.verdicts, query.failing) = 1000
    /\ query.confidence = 95

\* C20: a query in which a provider fails (the reranker is not available,
\* a faithfulness verification call raises) is still answered, and never
\* with a higher confidence than the same query gets when no provider fails
FailureNeverRaisesConfidence ==
    query.pc = "answered" =>
        /\ query.confidence >= 0
        /\ query.confidence <=
              ReasonConfidence([query EXCEPT !.reranker_up = TRUE, !.failing = {}])
\* C21: with the cross-encoder unavailable the confidence is computed with a
\* normalised rerank component of exactly 0.5
PlaceholderRerankIsHalf ==
    (query.pc = "answered" /\ query.in_domain /\ query.hits
       /\ ~query.reranker_up) => query.norm_rerank = 500

\* C22: the citation numbers are 1..K without gaps in the order of first
\* citation, sentences of one chunk share one number, and each number of
\* the sources list stands for exactly one chunk id
CitationsDense ==
    att.pc = "done" =>
      LET K == Len(att.sources_used)
          A == att.attributed
      IN /\ { A[i].num : i \in 1..Len(A) } = 1..K
         /\ \A i \in 1..Len(A) :
               A[i].num <= 1 + Cardinality({ A[k].num : k \in 1..(i - 1) })
         /\ \A i, k \in 1..Len(A) :
               (A[i].source_chunk_id = A[k].source_chunk_id)
                  <=> (A[i].num = A[k].num)
         /\ Len(att.sources) = K
         /\ \A n \in 1..K : att.sources[n].citation = n
         /\ \A n, m \in 1..K :
               att.sources[n].chunk_id = att.sources[m].chunk_id => n = m

\* C22 witness: three sentences were cited, the first and the last from one
\* chunk and the second from another
ChunkCitedTwice ==
    /\ att.pc = "done"
    /\ Len(att.attributed) = 3
    /\ att.attributed[1].source_chunk_id = att.attributed[3].source_chunk_id
    /\ att.attributed[1].source_chunk_id # att.attributed[2].source_chunk_id
    /\ Len(att.sources) = 2

\* C23: attribute() applied to the answer_with_citations it returned adds no
\* citation marker
SecondAttributeSameText ==
    (att.pc = "done" /\ att.pass = 2) => att.result = att.first

\* C24: a faithfulness result has 0 <= supported_claims <= total_claims, a
\* score of 1.0 without claims and else supported / total to three decimal
\* places, and at most five unsupported claims
FaithfulnessResultSound ==
    faith.pc = "scored" =>
      LET r == faith.result
          off == r.score * r.total_claims - 1000 * r.supported_claims
      IN /\ 0 <= r.supported_claims
         /\ r.supported_claims <= r.total_claims
         /\ r.total_claims = 0 => r.score = 1000
         /\ r.total_claims > 0 =>
               /\ 2 * off <= r.total_claims
               /\ -2 * off <= r.total_claims
         /\ Len(r.unsupported_claims) <= 5

\* C24 witness: six claims were checked, none was supported, five are listed
SixthUnsupportedCut ==
    /\ faith.pc = "scored"
    /\ faith.result.total_claims = 6
    /\ faith.result.supported_claims = 0
    /\ faith.result.score = 0
    /\ Len(faith.result.unsupported_claims) = 5

\* C25: analyze_prompt returns at least 10 domain keywords, on the LLM path
\* and on the fallback path
AtLeastTenKeywords ==
    analysis.pc \in {"llm", "fallback"} =>
        Len(analysis.result.domain_keywords) >= 10

\* C26: the domain of the analysis is the first of its domain keywords
DomainIsFirstKeyword ==
    analysis.pc \in {"llm", "fallback"} =>
        /\ analysis.result.domain_keywords # <<>>
        /\ analysis.result.domain_keywords[1] = analysis.result.domain

\* the stages called so far are the first ones of the order of the code
StagesInOrder ==
    /\ Len(run.stages) <= Len(StageOrder)
    /\ run.stages = SubSeq(StageOrder, 1, Len(run.stages))

\* C27: a query the guardrail rejects is answered in the next step with
\* in_domain = false and without a call to search, rerank, generation,
\* attribution or faithfulness; an accepted query goes through these
\* stages in exactly that order
GuardrailStopsReason ==
    /\ [](run.pc # "idle" =>
            /\ StagesInOrder
            /\ ~run.in_domain => run.stages = <<>>
            /\ (run.pc = "returned" /\ ~run.in_domain) => ~run.result.in_domain
            /\ (run.pc = "returned" /\ run.in_domain /\ run.searcher /\ run.hits)
                  => (run.stages = StageOrder /\ run.result.in_domain))
    /\ [][(run.pc = "guardrail" /\ ~run.in_domain) => run'.pc = "returned"]_vars

\* C27 witness: a rejected query has returned although its search would
\* have found chunks
RejectedWithoutSearch ==
    /\ run.pc = "returned"
    /\ ~run.in_domain
    /\ run.searcher /\ run.hits
    /\ run.stages = <<>>
    /\ ~run.result.in_domain

\* the job a status reader is shown for agent a: the newest of its jobs
LatestJob(a) == CHOOSE j \in JobsOf(a) : \A k \in JobsOf(a) : k <= j

\* C28: in every committed state the latest job of an agent is completed
\* only if the agent is ready and failed only if the agent is failed
TerminalStatusTogether ==
    \A a \in 1..Len(agents) :
        (AgentExists(a) /\ JobsOf(a) # {}) =>
            /\ jobs[LatestJob(a)].status = "completed"
                  => agents[a].status = "ready"
            /\ jobs[LatestJob(a)].status = "failed"
                  => agents[a].status = "failed"

\* C28 witness: one agent is ready with its job completed while a second
\* one is failed with its job failed
ReadyAndFailedWithJobs ==
    \E a, b \in 1..Len(agents) :
        /\ JobsOf(a) # {} /\ JobsOf(b) # {}
        /\ agents[a].status = "ready"
        /\ jobs[LatestJob(a)].status = "completed"
        /\ agents[b].status = "failed"
        /\ jobs[LatestJob(b)].status = "failed"

\* C29: the save of a compilation run for agent A leaves the chunks and the
\* chunk_count of every other agent as they were
SaveTouchesOwnAgentOnly ==
    [][\A j \in 1..Len(workers) :
          (workers[j].pc = "compile" /\ workers'[j].pc # "compile") =>
              \A b \in 1..Len(agents) :
                  b # WorkerAgent(j) =>
                      /\ {c \in chunks' : c.agent = b} = ChunksOf(b)
                      /\ agents'[b].chunk_count = agents[b].chunk_count]_vars

\* C30: right after create_agent(tenant, name) has added its row, get_agent
\* and so delete_agent find an agent of that tenant under the name string
\* that was given to create_agent
CreatedFoundByGivenName ==
    [][\A t \in Threads :
          (calls[t].pc = "insert" /\ calls'[t] = NoCall) =>
              \E a \in 1..Len(agents') :
                  /\ a \notin deleted'
                  /\ agents'[a].user = calls[t].user
                  /\ agents'[a].name = calls[t].name]_vars

====
